---- MODULE Spec2Model ----
(***************************************************************************)
(* Model of the Flax integration of tango: the batch source                *)
(* (FlaxDataLoader, src/tango/integrations/flax/data.py) and the           *)
(* evaluation loop (FlaxEvalStep.run, src/tango/integrations/flax/eval.py),*)
(* and of the soft prompt of the Transformers integration                  *)
(* (add_soft_prompt, src/tango/integrations/transformers/soft_prompt.py).  *)
(*                                                                         *)
(* Rows of a dataset are identified by their index 0..S-1; a batch maps    *)
(* every field of the dataset to the rows gathered for it.  Metric values  *)
(* are rationals <<numerator, denominator>> (floating-point rounding is    *)
(* not modelled).                                                          *)
(***************************************************************************)
EXTENDS Integers, Sequences, FiniteSets, TLC

\* ---------------------------------------------------------------- bounds
MaxRows == 3
MaxBatchSize == 2
MaxDevices == 2
MaxCalls == 2
MaxSeed == 1
MaxEvalSteps == 2
MaxCallbacks == 2
MaxYield == 2
MaxNesting == 2
MaxPromptLength == 2
MaxSeqLen == 2

\* ------------------------------------------------------ program constants
\* Defaults of FlaxEvalStep.run.
DefaultSeed == 42
DefaultLogEvery == 1

\* ------------------------------------------------------------ vocabulary
\* Python's None where a string is expected (no exception, no result).
None == "None"

\* An optional integer: <<>> is Python's None, <<n>> the integer n.
NoneInt == <<>>
Some(n) == <<n>>
IsNone(o) == o = <<>>
Val(o) == o[1]

\* The fields of a dataset row ("x" and "labels", data.py:17-18).
Fields == {"x", "labels"}

\* Python's three kinds of dataset object as FlaxDataLoader tells them apart:
\* a plain dict, a datasets.Dataset, anything else.
DatasetTypes == {"dict", "Dataset", "other"}

\* The metrics an evaluation function may report, and the values it reports.
MetricKeys == {"loss", "accuracy"}
MetricValues == {2, 4}

VARIABLES
    devices,   \* number of local compute devices (jax.devices())
    ld,        \* the FlaxDataLoader object
    gens,      \* the generators made by FlaxDataLoader.__call__, in call order
    cfg,       \* the arguments of FlaxEvalStep.run
    pc,        \* where run stands
    steps,     \* run's local "steps" (optional integer)
    callbacks, \* number of callbacks constructed so far
    cb,        \* position in the callback list of the hook loop under way
    step,      \* index of the batch under evaluation
    taken,     \* batches islice has handed out
    metrics,   \* metrics of the step under evaluation
    running_metrics,
    aggregated_metrics,
    postfix,   \* what the progress bar shows
    events,    \* hooks and evaluation-function calls made, in order
    hist,      \* the metrics each evaluated step delivered, in order
    error,     \* the exception run raised, None if none
    result,    \* what run returned, <<>> before it returns
    forwards,  \* the new_forward closures installed on model_to_patch.forward,
               \* innermost (first installed) first
    call       \* the call of model_to_patch.forward under way

loaderVars == <<devices, ld, gens>>

runVars == <<cfg, pc, steps, callbacks, cb, step, taken, metrics, running_metrics,
             aggregated_metrics, postfix, events, hist, error, result>>

promptVars == <<forwards, call>>

vars == <<loaderVars, runVars, promptVars>>

\* ------------------------------------------------------- sequence helpers
RECURSIVE Fact(_)
Fact(n) == IF n <= 1 THEN 1 ELSE n * Fact(n - 1)

RemoveAt(s, i) == SubSeq(s, 1, i - 1) \o SubSeq(s, i + 1, Len(s))

Take(s, n) == SubSeq(s, 1, IF n < Len(s) THEN n ELSE Len(s))

RECURSIVE Concat(_)
Concat(ss) == IF ss = <<>> THEN <<>> ELSE Head(ss) \o Concat(Tail(ss))

Range(s) == {s[i] : i \in DOMAIN s}

\* jax.numpy.arange(n): 0, 1, ..., n-1
Arange(n) == [i \in 1..n |-> i - 1]

\* jax.random.permutation(rng, n): a permutation of 0..n-1 that is a function
\* of the key alone (JAX keeps no hidden generator state).  The permutation
\* chosen is the one of lexicographic rank rng mod n!.
RECURSIVE KthPermutation(_, _)
KthPermutation(k, items) ==
    IF items = <<>> THEN <<>>
    ELSE LET f == Fact(Len(items) - 1)
             i == (k \div f) % Len(items)
         IN  <<items[i + 1]>> \o KthPermutation(k % f, RemoveAt(items, i + 1))

\* A generator with hidden state: the draw also depends on how many
\* generators exist.
PermutationStateful(rng, n) ==
    KthPermutation((rng + Len(gens)) % Fact(n), Arange(n))

Permutation(rng, n) == KthPermutation(rng % Fact(n), Arange(n))

\* ------------------------------------------------------- FlaxDataLoader
\* FlaxDataLoader._get_size: dataset["num_rows"] of a plain dict, the num_rows
\* attribute of anything else.  A dataset without the key or the attribute
\* makes the lookup raise; the result is whatever the dataset stores.
GetSizeRaises(dataset) == ~dataset.has_num_rows

GetSizeError(dataset) ==
    IF dataset.type = "dict" THEN "KeyError" ELSE "AttributeError"

GetSize(dataset) == dataset.num_rows

\* FlaxDataLoader.__init__ (when _get_size returns).
NewLoader(dataset, batch_size, drop_last, shuffle) ==
    [dataset      |-> dataset,
     batch_size   |-> batch_size,
     drop_last    |-> drop_last,
     shuffle      |-> shuffle,
     dataset_size |-> GetSize(dataset)]

\* steps_per_epoch as __call__ leaves it: the quotient of line 44 is
\* overwritten by the constant of line 45.
StepsPerEpoch(dataset_size, batch_size) == 1

\* The row count of a loader whose dataset_size is an integer.
Size(l) == Val(l.dataset_size)

\* perms before the reshape: the permutation or the identity order, cut to
\* steps_per_epoch * batch_size entries.
TruncatedPerms(l, rng) ==
    Take(IF l.shuffle THEN Permutation(rng, Size(l)) ELSE Arange(Size(l)),
         StepsPerEpoch(Size(l), l.batch_size) * l.batch_size)

\* perms.reshape((steps_per_epoch, batch_size)) needs exactly that many entries.
ReshapeRaises(l, rng) ==
    Len(TruncatedPerms(l, rng)) # StepsPerEpoch(Size(l), l.batch_size) * l.batch_size

\* With drop_last off the rows left over after the full batches make one
\* more, shorter batch.
ReshapedKeepsRemainder(l, rng) ==
    LET all == IF l.shuffle THEN Permutation(rng, Size(l)) ELSE Arange(Size(l))
        full == StepsPerEpoch(Size(l), l.batch_size)
    IN  [r \in 1..(full + (IF ~l.drop_last /\ Len(all) > full * l.batch_size THEN 1 ELSE 0)) |->
            IF r <= full
            THEN SubSeq(all, (r - 1) * l.batch_size + 1, r * l.batch_size)
            ELSE SubSeq(all, full * l.batch_size + 1, Len(all))]

Reshaped(l, rng) ==
    [r \in 1..StepsPerEpoch(Size(l), l.batch_size) |->
        SubSeq(TruncatedPerms(l, rng),
               (r - 1) * l.batch_size + 1, r * l.batch_size)]

\* self.dataset[perm], every field converted with jnp.array: the rows perm of
\* each field.
Gather(l, perm) == [k \in Fields |-> perm]

\* flax.training.common_utils.shard applied to one field: reshape the leading
\* dimension to (device count, -1).
ShardRaisesNever(rows, d) == FALSE

ShardRaises(rows, d) == Len(rows) % d # 0

ShardField(rows, d) ==
    [j \in 1..d |-> SubSeq(rows, (j - 1) * (Len(rows) \div d) + 1,
                                 j * (Len(rows) \div d))]

Shard(batch, d) == [k \in DOMAIN batch |-> ShardField(batch[k], d)]

\* A generator object: the call's arguments, where its body stands, and what
\* it has yielded so far.
NewGen(rng, do_distributed) ==
    [rng |-> rng, do_distributed |-> do_distributed,
     pc |-> "created", perms |-> <<>>, pos |-> 0,
     yielded |-> <<>>, error |-> None]

Raise(g, err) == [g EXCEPT !.pc = "raised", !.error = err]

\* One pass of the body of "for perm in perms" (lines 55-65), or the end of
\* the loop.
GenLoop(l, g) ==
    IF g.pos >= Len(g.perms) THEN [g EXCEPT !.pc = "done"]
    ELSE IF l.dataset.type \notin {"dict", "Dataset"} THEN Raise(g, "ValueError")
    ELSE IF g.do_distributed /\ ShardRaises(g.perms[g.pos + 1], devices)
         THEN Raise(g, "ShardingError")
    ELSE LET batch == Gather(l, g.perms[g.pos + 1])
         IN  [g EXCEPT !.pc = "suspended",
                       !.pos = g.pos + 1,
                       !.yielded = Append(g.yielded,
                           IF g.do_distributed THEN Shard(batch, devices)
                                               ELSE batch)]

\* next() on a generator of FlaxDataLoader.__call__: the first one runs the
\* body from its top (lines 44-53), every one runs up to the next yield.
GenNext(l, g) ==
    IF g.pc \in {"done", "raised"} THEN g
    ELSE IF g.pc = "suspended" THEN GenLoop(l, g)
    ELSE IF IsNone(l.dataset_size) THEN Raise(g, "TypeError")
    ELSE IF ReshapeRaises(l, g.rng) THEN Raise(g, "ReshapeError")
    ELSE GenLoop(l, [g EXCEPT !.perms = Reshaped(l, g.rng)])

\* ------------------------------------------------ the loader on its own
\* Datasets a FlaxDataLoader can be constructed on: the row count is stored.
SizedDatasets ==
    [type : DatasetTypes, has_num_rows : {TRUE},
     num_rows : {Some(n) : n \in 1..MaxRows}]

\* A mapping from metric names to values with no entry.
EmptyMap == [k \in {} |-> <<0, 1>>]

\* No run of FlaxEvalStep is under way.
NoRun ==
    /\ cfg = [loader_cls |-> "FlaxDataLoader", num_yield |-> 0]
    /\ pc = "idle"
    /\ steps = NoneInt
    /\ callbacks = 0
    /\ cb = 0
    /\ step = 0
    /\ taken = 0
    /\ metrics = EmptyMap
    /\ running_metrics = EmptyMap
    /\ aggregated_metrics = EmptyMap
    /\ postfix = EmptyMap
    /\ events = <<>>
    /\ hist = <<>>
    /\ error = None
    /\ result = <<>>

\* The model is unpatched and no forward call was made.
NoPrompt ==
    /\ forwards = <<>>
    /\ call = [pc |-> "idle"]

InitLoader ==
    /\ NoPrompt
    /\ devices \in 1..MaxDevices
    /\ \E ds \in SizedDatasets, b \in 1..MaxBatchSize, dl \in BOOLEAN, sh \in BOOLEAN :
          ld = NewLoader(ds, b, dl, sh)
    /\ gens = <<>>
    /\ NoRun

\* dataloader(rng, do_distributed): makes a generator, runs none of the body.
\* One epoch at a time: the generators share no state, and a new one is made
\* when the one before it has ended.
LoaderCall ==
    /\ Len(gens) < MaxCalls
    /\ \A n \in DOMAIN gens : gens[n].pc \in {"done", "raised"}
    /\ \E rng \in 0..MaxSeed, dd \in BOOLEAN :
          gens' = Append(gens, NewGen(rng, dd))
    /\ UNCHANGED <<promptVars, devices, ld, runVars>>

\* next() on one of the generators.
LoaderNext ==
    /\ \E n \in DOMAIN gens :
          /\ gens[n].pc \notin {"done", "raised"}
          /\ gens' = [gens EXCEPT ![n] = GenNext(ld, gens[n])]
    /\ UNCHANGED <<promptVars, devices, ld, runVars>>

NextLoader == LoaderCall \/ LoaderNext

SpecLoader == InitLoader /\ [][NextLoader]_vars

\* ------------------------------------------------------ FlaxEvalStep.run
\* Rationals as <<numerator, denominator>>.
Rat(n) == <<n, 1>>
RatAdd(a, b) == <<a[1] * b[2] + b[1] * a[2], a[2] * b[2]>>
RatDiv(a, n) == <<a[1], a[2] * n>>
RatEq(a, b) == a[1] * b[2] = b[1] * a[2]

\* What an evaluation function may return as metrics: any of the keys, each
\* with any of the values.
MetricsSet ==
    UNION {[ks -> {Rat(v) : v \in MetricValues}] : ks \in SUBSET MetricKeys}

\* A loader whose class overrides __call__ (run accepts any
\* Lazy[FlaxDataLoader]): it yields num_yield batches and raises nothing.
SubclassNext(g) ==
    IF g.pos >= cfg.num_yield THEN [g EXCEPT !.pc = "done"]
    ELSE [g EXCEPT !.pc = "suspended",
                   !.pos = g.pos + 1,
                   !.yielded = Append(g.yielded, [k \in Fields |-> <<g.pos>>])]

\* next() on the generator of the loader run was given.
DataloaderNext(l, g) ==
    IF cfg.loader_cls = "FlaxDataLoader" THEN GenNext(l, g) ELSE SubclassNext(g)

\* get_PRNGkey(seed): the key made from the seed.
get_PRNGkey(seed) == seed

\* The datasets run may be given: with a row count, without the key or the
\* attribute, or with None stored for it.
UnsizedDatasets ==
    {[type |-> "dict", has_num_rows |-> FALSE, num_rows |-> NoneInt],
     [type |-> "dict", has_num_rows |-> TRUE, num_rows |-> NoneInt],
     [type |-> "other", has_num_rows |-> FALSE, num_rows |-> NoneInt]}

OptionalEvalSteps == {NoneInt} \cup {Some(n) : n \in 1..MaxEvalSteps}

MetricNameSets == {{"loss"}, {"loss", "accuracy"}}

\* run's arguments when the dataloader is a FlaxDataLoader.
FlaxConfigs ==
    [loader_cls : {"FlaxDataLoader"}, num_yield : {0},
     dataset : SizedDatasets \cup UnsizedDatasets,
     batch_size : 1..MaxBatchSize, drop_last : {TRUE}, shuffle : BOOLEAN,
     seed : {DefaultSeed}, log_every : {DefaultLogEvery},
     do_distributed : BOOLEAN, eval_steps : OptionalEvalSteps,
     metric_names : MetricNameSets, auto_aggregate_metrics : BOOLEAN,
     callbacks : 0..MaxCallbacks]

\* run's arguments when the dataloader's class overrides __call__.
SubclassConfigs ==
    [loader_cls : {"subclass"}, num_yield : 0..MaxYield,
     dataset : {[type |-> "Dataset", has_num_rows |-> TRUE,
                 num_rows |-> Some(MaxRows)]},
     batch_size : {1}, drop_last : {TRUE}, shuffle : {FALSE},
     seed : {DefaultSeed}, log_every : {DefaultLogEvery},
     do_distributed : BOOLEAN, eval_steps : OptionalEvalSteps,
     metric_names : MetricNameSets, auto_aggregate_metrics : BOOLEAN,
     callbacks : 0..MaxCallbacks]

NoLoader == [constructed |-> FALSE]

Init ==
    /\ NoPrompt
    /\ cfg \in FlaxConfigs \cup SubclassConfigs
    /\ devices \in (IF cfg.do_distributed THEN 1..MaxDevices ELSE {1})
    /\ ld = NoLoader
    /\ gens = <<>>
    /\ pc = "start"
    /\ steps = NoneInt
    /\ callbacks = 0
    /\ cb = 0
    /\ step = 0
    /\ taken = 0
    /\ metrics = EmptyMap
    /\ running_metrics = EmptyMap
    /\ aggregated_metrics = EmptyMap
    /\ postfix = EmptyMap
    /\ events = <<>>
    /\ hist = <<>>
    /\ error = None
    /\ result = <<>>

\* The exception is caught and dropped where it was raised.
PropagateSwallowed(err) ==
    /\ pc' = pc
    /\ error' = error

\* An exception leaves run: nothing catches it.
Propagate(err) ==
    /\ pc' = "raised"
    /\ error' = err

\* One call made by run: a hook of callback c, or the evaluation function
\* (c = 0); arg is the mapping handed to post_eval_loop, or the metrics the
\* evaluation function returned on each device.
Event(ev, c, s, arg, raised) ==
    [ev |-> ev, cb |-> c, step |-> s, arg |-> arg, raised |-> raised]

\* The hook loop walks the list backwards.
HookOrderReversed(n) == callbacks + 1 - n

\* The callback the hook loop calls at position n of the list.
HookOrder(n) == n

\* dataloader.construct(dataset=dataset[test_split]) (line 57)
ConstructDataloader ==
    /\ pc = "start"
    /\ IF GetSizeRaises(cfg.dataset)
       THEN /\ Propagate(GetSizeError(cfg.dataset))
            /\ UNCHANGED ld
       ELSE /\ ld' = NewLoader(cfg.dataset, cfg.batch_size, cfg.drop_last, cfg.shuffle)
            /\ pc' = "resolve_steps"
            /\ UNCHANGED error
    /\ UNCHANGED <<promptVars, devices, gens, cfg, steps, callbacks, cb, step, taken, metrics,
                   running_metrics, aggregated_metrics, postfix, events, hist, result>>

\* Reading dataloader.dataset_size (line 63): a plain attribute, which raises
\* no TypeError.
DatasetSizeRaisesTypeError(l) == FALSE

\* min(dataloader_len, eval_steps) raises TypeError when dataloader_len is None.
MinRaisesTypeError(l) == IsNone(l.dataset_size)

Min(a, b) == IF a <= b THEN a ELSE b

\* The try statement of lines 62-71.
ResolveSteps ==
    /\ pc = "resolve_steps"
    /\ IF DatasetSizeRaisesTypeError(ld)
          \/ (~IsNone(cfg.eval_steps) /\ MinRaisesTypeError(ld))
       THEN IF IsNone(cfg.eval_steps)
            THEN /\ Propagate("ConfigurationError")
                 /\ UNCHANGED steps
            ELSE /\ steps' = cfg.eval_steps
                 /\ pc' = "check_devices"
                 /\ UNCHANGED error
       ELSE /\ steps' = IF IsNone(cfg.eval_steps) THEN ld.dataset_size
                        ELSE Some(Min(Val(ld.dataset_size), Val(cfg.eval_steps)))
            /\ pc' = "check_devices"
            /\ UNCHANGED error
    /\ UNCHANGED <<promptVars, devices, ld, gens, cfg, callbacks, cb, step, taken, metrics,
                   running_metrics, aggregated_metrics, postfix, events, hist, result>>

\* Lines 73-78.
CheckDevices ==
    /\ pc = "check_devices"
    /\ IF cfg.do_distributed /\ devices <= 1
       THEN Propagate("ConfigurationError")
       ELSE pc' = "construct_callbacks" /\ UNCHANGED error
    /\ UNCHANGED <<promptVars, devices, ld, gens, cfg, steps, callbacks, cb, step, taken, metrics,
                   running_metrics, aggregated_metrics, postfix, events, hist, result>>

\* Lines 80-90.
ConstructCallbacks ==
    /\ pc = "construct_callbacks"
    /\ callbacks' = cfg.callbacks
    /\ pc' = "pre_eval_loop"
    /\ cb' = 1
    /\ UNCHANGED <<promptVars, devices, ld, gens, cfg, steps, step, taken, metrics,
                   running_metrics, aggregated_metrics, postfix, events, hist,
                   error, result>>

\* A hook of the callback at position cb of the list returns or raises.
CallHook(ev, arg) ==
    \E raises \in BOOLEAN :
        /\ events' = Append(events, Event(ev, HookOrder(cb), step, arg, raises))
        /\ IF raises
           THEN Propagate("CallbackError") /\ UNCHANGED cb
           ELSE cb' = cb + 1 /\ UNCHANGED <<pc, error>>

\* callback.pre_eval_loop() (lines 92-93)
PreEvalLoop ==
    /\ pc = "pre_eval_loop"
    /\ cb <= callbacks
    /\ CallHook("pre_eval_loop", EmptyMap)
    /\ UNCHANGED <<promptVars, devices, ld, gens, cfg, steps, callbacks, step, taken, metrics,
                   running_metrics, aggregated_metrics, postfix, hist, result>>

\* Lines 101-105: the key, the generator under islice and enumerate, and the
\* two empty metric mappings.
StartLoop ==
    /\ pc = "pre_eval_loop"
    /\ cb > callbacks
    /\ gens' = <<NewGen(get_PRNGkey(cfg.seed), cfg.do_distributed)>>
    /\ running_metrics' = EmptyMap
    /\ aggregated_metrics' = EmptyMap
    /\ taken' = 0
    /\ pc' = "next_batch"
    /\ UNCHANGED <<promptVars, devices, ld, cfg, steps, callbacks, cb, step, metrics, postfix,
                   events, hist, error, result>>

\* islice(..., steps) has handed out all it may.
IsliceExhausted == ~IsNone(steps) /\ taken >= Val(steps)

\* The head of "for step, batch in batch_iter" (lines 107-109).
NextBatch ==
    /\ pc = "next_batch"
    /\ IF IsliceExhausted
       THEN /\ pc' = "post_eval_loop"
            /\ cb' = 1
            /\ UNCHANGED <<gens, step, taken, error>>
       ELSE LET g == DataloaderNext(ld, gens[1])
            IN  /\ gens' = <<g>>
                /\ IF g.pc = "raised"
                   THEN Propagate(g.error) /\ UNCHANGED <<cb, step, taken>>
                   ELSE IF g.pc = "done"
                   THEN /\ pc' = "post_eval_loop"
                        /\ cb' = 1
                        /\ UNCHANGED <<step, taken, error>>
                   ELSE /\ step' = taken
                        /\ taken' = taken + 1
                        /\ pc' = "pre_batch"
                        /\ cb' = 1
                        /\ UNCHANGED error
    /\ UNCHANGED <<promptVars, devices, ld, cfg, steps, callbacks, metrics, running_metrics,
                   aggregated_metrics, postfix, events, hist, result>>

\* callback.pre_batch(step, batch) (lines 110-111)
PreBatch ==
    /\ pc = "pre_batch"
    /\ cb <= callbacks
    /\ CallHook("pre_batch", EmptyMap)
    /\ UNCHANGED <<promptVars, devices, ld, gens, cfg, steps, callbacks, step, taken, metrics,
                   running_metrics, aggregated_metrics, postfix, hist, result>>

\* Lines 113-120 on one device: the evaluation function returns m or raises.
EvalStep ==
    /\ pc = "pre_batch"
    /\ cb > callbacks
    /\ ~cfg.do_distributed
    /\ \/ /\ events' = Append(events, Event("eval_fn", 0, step, EmptyMap, TRUE))
          /\ Propagate("EvalError")
          /\ UNCHANGED <<metrics, hist, cb>>
       \/ \E m \in MetricsSet :
             /\ events' = Append(events, Event("eval_fn", 0, step, EmptyMap, FALSE))
             /\ metrics' = m
             /\ hist' = Append(hist, m)
             /\ pc' = "post_batch"
             /\ cb' = 1
             /\ UNCHANGED error
    /\ UNCHANGED <<promptVars, devices, ld, gens, cfg, steps, callbacks, step, taken,
                   running_metrics, aggregated_metrics, postfix, result>>

\* What the evaluation function may return on d device shards: the same keys
\* on every device, any of the values on each.
DeviceMetricsSet(d) ==
    UNION {[1..d -> [ks -> {Rat(v) : v \in MetricValues}]] : ks \in SUBSET MetricKeys}

\* The sum of metric k over the first n devices.
RECURSIVE DeviceSum(_, _, _)
DeviceSum(pd, k, n) ==
    IF n = 0 THEN Rat(0) ELSE RatAdd(DeviceSum(pd, k, n - 1), pd[n][k])

\* jax.lax.pmean(metrics, axis_name="batch") inside the pmap (lines 97-98):
\* every device gets the mean over the devices.
PMean(pd) ==
    [n \in DOMAIN pd |->
        [k \in DOMAIN pd[n] |-> RatDiv(DeviceSum(pd, k, Len(pd)), Len(pd))]]

\* The metrics jax.pmap(eval_step, axis_name="batch") returns (lines 114-115):
\* per key, the per-device results stacked along a leading device axis.
Stacked(out) == [k \in DOMAIN out[1] |-> [n \in DOMAIN out |-> out[n][k]]]

\* Lines 113-116 under do_distributed: the evaluation function runs on every
\* device shard under jax.pmap, with the mean taken inside eval_step; then
\* jax.lax.pmean is called again on the stacked result outside any pmap,
\* where the axis "batch" is unbound.
EvalStepDistributed ==
    /\ pc = "pre_batch"
    /\ cb > callbacks
    /\ cfg.do_distributed
    /\ \/ /\ events' = Append(events, Event("eval_fn", 0, step, EmptyMap, TRUE))
          /\ Propagate("EvalError")
          /\ UNCHANGED metrics
       \/ \E pd \in DeviceMetricsSet(devices) :
             /\ events' = Append(events, Event("eval_fn", 0, step, pd, FALSE))
             /\ metrics' = Stacked(PMean(pd))
             /\ Propagate("NameError")
    /\ UNCHANGED <<promptVars, devices, ld, gens, cfg, steps, callbacks, cb, step, taken,
                   running_metrics, aggregated_metrics, postfix, hist, result>>

\* callback.post_batch(step, logits) (lines 122-123)
PostBatch ==
    /\ pc = "post_batch"
    /\ cb <= callbacks
    /\ CallHook("post_batch", EmptyMap)
    /\ UNCHANGED <<promptVars, devices, ld, gens, cfg, steps, callbacks, step, taken, metrics,
                   running_metrics, aggregated_metrics, postfix, hist, result>>

\* A defaultdict(float) read at key k.
Get(d, k) == IF k \in DOMAIN d THEN d[k] ELSE Rat(0)

\* d with d[k] = v.
Put(d, k, v) == [x \in DOMAIN d \cup {k} |-> IF x = k THEN v ELSE d[x]]

\* The keys of the step's metrics that auto-aggregation takes up.
Aggregated(m) == DOMAIN m \cap cfg.metric_names

\* running_metrics after lines 125-128.
RunningAfter(run, m) ==
    [k \in DOMAIN run \cup Aggregated(m) |->
        IF k \in Aggregated(m) THEN RatAdd(Get(run, k), m[k]) ELSE run[k]]

\* The divisor of line 129.
Divisor(s) == s + 1

\* Without auto-aggregation the aggregate is replaced by the step's metrics.
AggregatedAfterOverwrite(agg, run, m, s) ==
    IF cfg.auto_aggregate_metrics
    THEN [k \in DOMAIN agg \cup Aggregated(m) |->
             IF k \in Aggregated(m)
             THEN RatDiv(RunningAfter(run, m)[k], Divisor(s)) ELSE agg[k]]
    ELSE m

\* aggregated_metrics after lines 125-131.
AggregatedAfter(agg, run, m, s) ==
    IF cfg.auto_aggregate_metrics
    THEN [k \in DOMAIN agg \cup Aggregated(m) |->
             IF k \in Aggregated(m)
             THEN RatDiv(RunningAfter(run, m)[k], Divisor(s)) ELSE agg[k]]
    ELSE [k \in DOMAIN agg \cup DOMAIN m |-> IF k \in DOMAIN m THEN m[k] ELSE agg[k]]

\* should_log_this_step (line 109)
ShouldLog(s) ==
    \/ s % cfg.log_every = 0
    \/ (~IsNone(steps) /\ s = Val(steps) - 1)

\* Lines 125-135: the aggregation, the progress bar, the end of the loop body.
Aggregate ==
    /\ pc = "post_batch"
    /\ cb > callbacks
    /\ running_metrics' = IF cfg.auto_aggregate_metrics
                          THEN RunningAfter(running_metrics, metrics)
                          ELSE running_metrics
    /\ aggregated_metrics' =
           AggregatedAfter(aggregated_metrics, running_metrics, metrics, step)
    /\ postfix' = IF ShouldLog(step) THEN aggregated_metrics' ELSE postfix
    /\ pc' = "next_batch"
    /\ UNCHANGED <<promptVars, devices, ld, gens, cfg, steps, callbacks, cb, step, taken, metrics,
                   events, hist, error, result>>

\* post_eval_loop is given the running sums.
PostEvalLoopArgRunning == running_metrics

\* The mapping post_eval_loop is given.
PostEvalLoopArg == aggregated_metrics

\* callback.post_eval_loop(aggregated_metrics) (lines 137-138)
PostEvalLoop ==
    /\ pc = "post_eval_loop"
    /\ cb <= callbacks
    /\ CallHook("post_eval_loop", PostEvalLoopArg)
    /\ UNCHANGED <<promptVars, devices, ld, gens, cfg, steps, callbacks, step, taken, metrics,
                   running_metrics, aggregated_metrics, postfix, hist, result>>

\* return aggregated_metrics (line 140)
Return ==
    /\ pc = "post_eval_loop"
    /\ cb > callbacks
    /\ result' = <<aggregated_metrics>>
    /\ pc' = "returned"
    /\ UNCHANGED <<promptVars, devices, ld, gens, cfg, steps, callbacks, cb, step, taken, metrics,
                   running_metrics, aggregated_metrics, postfix, events, hist, error>>

Next ==
    \/ ConstructDataloader
    \/ ResolveSteps
    \/ CheckDevices
    \/ ConstructCallbacks
    \/ PreEvalLoop
    \/ StartLoop
    \/ NextBatch
    \/ PreBatch
    \/ EvalStep
    \/ EvalStepDistributed
    \/ PostBatch
    \/ Aggregate
    \/ PostEvalLoop
    \/ Return

Spec == Init /\ [][Next]_vars

\* ------------------------------------------------------- add_soft_prompt
\* A tensor is modelled along its sequence dimension: the sequence of its
\* entries at the positions of one row of the batch.  An optional tensor (or
\* tuple of tensors) is <<>> for None and <<t>> for t.
NoTensor == <<>>

\* The result classes new_forward tells apart (lines 129, 141, 155).
ResultTypes ==
    {"CausalLMOutputWithCrossAttentions",
     "BaseModelOutputWithPastAndCrossAttentions",
     "other"}

\* The keyword arguments new_forward lengthens besides inputs_embeds
\* (lines 117-120).
SequenceKeys == {"labels", "attention_mask", "token_type_ids", "position_ids"}

\* original_embedding(input_ids) (line 109): one embedding row per token.
original_embedding(input_ids) ==
    [j \in DOMAIN input_ids |-> <<"token", 0, input_ids[j]>>]

\* prompt_embedding expanded to the batch (lines 43-55, 114): the
\* prompt_length rows of the parameter of one application f.
prompt_embedding(f) ==
    [j \in 1..f.prompt_length |-> <<"prompt", f.parameter_name, j>>]

\* Lines 57-66: the first of "prompt_embedding" (0), "prompt_embedding_1" (1),
\* ... that the model has no parameter of.
UniqueParameterName(names) ==
    CHOOSE n \in 0..Cardinality(names) :
        n \notin names /\ \A m \in 0..(n - 1) : m \in names

\* add_soft_prompt(model, prompt_length): registers the prompt parameter and
\* replaces model_to_patch.forward (the encoder's when the model has one) by a
\* new_forward closed over prompt_length and the forward it replaces.
AddSoftPrompt ==
    /\ call.pc = "idle"
    /\ Len(forwards) < MaxNesting
    /\ \E prompt_length \in 1..MaxPromptLength :
          forwards' = Append(forwards,
              [prompt_length |-> prompt_length,
               parameter_name |-> UniqueParameterName(
                   {forwards[n].parameter_name : n \in DOMAIN forwards})])
    /\ UNCHANGED <<call, loaderVars, runVars>>

\* t.new_full((t.size(0), prompt_length) + t.shape[2:], value)
Full(n, value) == [j \in 1..n |-> value]

\* patch_tensor (lines 69-74)
patch_tensor(kwargs, key, value, prompt_length) ==
    IF key \notin DOMAIN kwargs THEN kwargs
    ELSE Put(kwargs, key, Full(prompt_length, value) \o kwargs[key])

\* patch_tensor_with_indices (lines 76-90)
patch_tensor_with_indices(kwargs, key, offset, prompt_length) ==
    IF key \notin DOMAIN kwargs THEN kwargs
    ELSE Put(kwargs, key,
             Arange(prompt_length) \o [j \in DOMAIN kwargs[key] |-> kwargs[key][j] + offset])

\* kwargs after kwargs.pop(key, None)
Pop(kwargs, key) == [x \in DOMAIN kwargs \ {key} |-> kwargs[x]]

\* Lines 106-120: the keyword arguments new_forward of application f hands to
\* the forward it replaced.
PatchedKwargs(f, kwargs) ==
    LET popped == Pop(kwargs, "input_ids")
        inputs_embeds ==
            IF "inputs_embeds" \in DOMAIN popped THEN Some(popped["inputs_embeds"])
            ELSE IF "input_ids" \in DOMAIN kwargs
                 THEN Some(original_embedding(kwargs["input_ids"]))
                 ELSE NoTensor
        embedded ==
            IF IsNone(inputs_embeds) THEN popped
            ELSE Put(popped, "inputs_embeds", prompt_embedding(f) \o Val(inputs_embeds))
    IN  patch_tensor_with_indices(
            patch_tensor(
                patch_tensor(
                    patch_tensor(embedded, "labels", 0, f.prompt_length),
                    "attention_mask", 1, f.prompt_length),
                "token_type_ids", 0, f.prompt_length),
            "position_ids", f.prompt_length, f.prompt_length)

\* How a call hands over its tokens: input_ids by keyword, input_ids as the
\* first positional argument, or inputs_embeds by keyword.
InputStyles == {"input_ids", "positional", "inputs_embeds"}

\* The other sequence arguments a call supplies.
SuppliedKeySets == {{}, {"attention_mask"}, SequenceKeys}

\* What the transformer is set to return: its result class, and whether the
\* result carries hidden states, attentions and a key/value cache.
OutputOptions ==
    [type : ResultTypes,
     output_hidden_states : BOOLEAN,
     output_attentions : BOOLEAN,
     use_cache : BOOLEAN]

\* Token ids of a sequence of length n.
InputIds(n) == [j \in 1..n |-> j]

\* The keyword arguments of a call on a sequence of length n.
Kwargs(n, style, keys, past) ==
    [key \in keys
          \cup (IF style = "positional" THEN {} ELSE {style})
          \cup (IF past THEN {"past_key_values"} ELSE {}) |->
        CASE key = "input_ids" -> InputIds(n)
          [] key = "inputs_embeds" -> original_embedding(InputIds(n))
          [] key = "labels" -> InputIds(n)
          [] key = "attention_mask" -> Full(n, 1)
          [] key = "token_type_ids" -> Full(n, 0)
          [] key = "position_ids" -> Arange(n)
          [] key = "past_key_values" -> <<"cache">>]

\* model_to_patch.forward(*args, **kwargs) is called: the call enters the
\* forward installed last.
Forward ==
    /\ call.pc = "idle"
    /\ \E n \in 1..MaxSeqLen, style \in InputStyles, keys \in SuppliedKeySets,
          past \in BOOLEAN, options \in OutputOptions :
          call' = [pc |-> "new_forward",
                   depth |-> Len(forwards),
                   args |-> IF style = "positional" THEN <<InputIds(n)>> ELSE <<>>,
                   kwargs |-> Kwargs(n, style, keys, past),
                   given |-> [length |-> n, style |-> style, keys |-> keys, past |-> past],
                   options |-> options,
                   seen |-> NoTensor,
                   result |-> NoTensor,
                   error |-> None]
    /\ UNCHANGED <<forwards, loaderVars, runVars>>

\* Lines 99-123 of the new_forward at position call.depth: with
\* past_key_values it calls the forward it replaced on the arguments as they
\* are, otherwise on the lengthened keyword arguments; positional arguments
\* pass through untouched either way.
NewForward ==
    /\ call.pc = "new_forward"
    /\ call.depth >= 1
    /\ call' = [call EXCEPT
                   !.depth = @ - 1,
                   !.kwargs = IF "past_key_values" \in DOMAIN @ THEN @
                              ELSE PatchedKwargs(forwards[call.depth], @)]
    /\ UNCHANGED <<forwards, loaderVars, runVars>>

\* The sequence the transformer runs on: inputs_embeds, else input_ids.
SequenceInput(args, kwargs) ==
    IF "inputs_embeds" \in DOMAIN kwargs THEN kwargs["inputs_embeds"]
    ELSE IF args # <<>> THEN args[1]
    ELSE kwargs["input_ids"]

\* The transformer cannot run on sequence arguments of different lengths.
ShapesDisagree(args, kwargs) ==
    \E key \in SequenceKeys \cap DOMAIN kwargs :
        Len(kwargs[key]) # Len(SequenceInput(args, kwargs))

\* The positions 1..n of an output tensor.
Positions(n) == [j \in 1..n |-> j]

\* The result of the transformer on a sequence of length n: one output row
\* per input position in every tensor; the key/value cache holds one
\* (key, value) pair of tensors per layer.
ModelOutput(options, n) ==
    [type |-> options.type,
     logits |-> IF options.type = "CausalLMOutputWithCrossAttentions"
                THEN Some(Positions(n)) ELSE NoTensor,
     last_hidden_state |-> IF options.type = "CausalLMOutputWithCrossAttentions"
                           THEN NoTensor ELSE Some(Positions(n)),
     hidden_states |-> IF options.output_hidden_states
                       THEN Some(<<Positions(n)>>) ELSE NoTensor,
     attentions |-> IF options.output_attentions
                    THEN Some(<<Positions(n)>>) ELSE NoTensor,
     cross_attentions |-> NoTensor,
     past_key_values |-> IF options.use_cache
                         THEN Some(<<[key |-> Positions(n), value |-> Positions(n)]>>)
                         ELSE NoTensor]

\* The forward of the unpatched transformer, reached through every
\* new_forward (line 123, or line 104 with past_key_values).  An exception
\* passes through every new_forward.
OldForward ==
    /\ call.pc = "new_forward"
    /\ call.depth = 0
    /\ call' = [call EXCEPT
                   !.seen = Some([args |-> call.args, kwargs |-> call.kwargs]),
                   !.pc = IF ShapesDisagree(call.args, call.kwargs) THEN "raised"
                          ELSE IF forwards = <<>> THEN "returned"
                          ELSE "unpatch",
                   !.depth = 1,
                   !.error = IF ShapesDisagree(call.args, call.kwargs)
                             THEN "RuntimeError" ELSE None,
                   !.result = IF ShapesDisagree(call.args, call.kwargs) THEN NoTensor
                              ELSE Some(ModelOutput(call.options,
                                        Len(SequenceInput(call.args, call.kwargs))))]
    /\ UNCHANGED <<forwards, loaderVars, runVars>>

\* t[:, prompt_length:] (line 126) and t[:, :, prompt_length:] (line 127) on
\* the dimension the model keeps.
unpatch_tensor(t, prompt_length) == SubSeq(t, prompt_length + 1, Len(t))

\* tuple(map(unpatch_tensor, ts)) where ts is not None.
UnpatchAll(ts, prompt_length) ==
    IF IsNone(ts) THEN ts
    ELSE Some([j \in DOMAIN Val(ts) |-> unpatch_tensor(Val(ts)[j], prompt_length)])

\* unpatch_tensor(t) where t is not None.
UnpatchOne(t, prompt_length) ==
    IF IsNone(t) THEN t ELSE Some(unpatch_tensor(Val(t), prompt_length))

\* Line 145 maps unpatch_kv_tensor over past_key_values; applied to a
\* (key, value) pair, t[:, :, prompt_length:] is a tuple indexed by a tuple.
UnpatchRaises(res) ==
    /\ res.type = "BaseModelOutputWithPastAndCrossAttentions"
    /\ ~IsNone(res.past_key_values)

\* Lines 129-160: the result new_forward returns.
Unpatched(res, prompt_length) ==
    IF res.type = "CausalLMOutputWithCrossAttentions"
    THEN [res EXCEPT
            !.logits = UnpatchOne(@, prompt_length),
            !.hidden_states = UnpatchAll(@, prompt_length),
            !.attentions = UnpatchAll(@, prompt_length),
            !.cross_attentions = UnpatchAll(@, prompt_length)]
    ELSE IF res.type = "BaseModelOutputWithPastAndCrossAttentions"
    THEN [res EXCEPT
            !.last_hidden_state = UnpatchOne(@, prompt_length),
            !.hidden_states = UnpatchAll(@, prompt_length),
            !.attentions = UnpatchAll(@, prompt_length),
            !.cross_attentions = UnpatchAll(@, prompt_length)]
    ELSE res

\* The forward that the new_forward at position call.depth replaced has
\* returned: with past_key_values its result is returned as it is (line
\* 104), otherwise lines 125-160 run.
NewForwardReturn ==
    /\ call.pc = "unpatch"
    /\ LET prompt_length == forwards[call.depth].prompt_length
           passthrough == "past_key_values" \in DOMAIN call.kwargs
           raises == ~passthrough /\ UnpatchRaises(Val(call.result))
       IN  call' = [call EXCEPT
                      !.result = IF raises THEN NoTensor
                                 ELSE IF passthrough THEN @
                                 ELSE Some(Unpatched(Val(@), prompt_length)),
                      !.error = IF raises THEN "TypeError" ELSE None,
                      !.pc = IF raises THEN "raised"
                             ELSE IF call.depth = Len(forwards) THEN "returned"
                             ELSE "unpatch",
                      !.depth = IF raises \/ call.depth = Len(forwards) THEN @ ELSE @ + 1]
    /\ UNCHANGED <<forwards, loaderVars, runVars>>

InitPrompt ==
    /\ NoPrompt
    /\ devices = 1
    /\ ld = NoLoader
    /\ gens = <<>>
    /\ NoRun

NextPrompt ==
    \/ AddSoftPrompt
    \/ Forward
    \/ NewForward
    \/ OldForward
    \/ NewForwardReturn

SpecPrompt == InitPrompt /\ [][NextPrompt]_vars

\* ------------------------------------------- claims on FlaxEvalStep.run
RunFinished == pc \in {"returned", "raised"}

SizedRows == Val(cfg.dataset.num_rows)

\* C2: a sized dataset of S rows, batch size B dividing S, shuffle off,
\* eval_steps unset, auto_aggregate_metrics on, metric_names = {"loss"}, an
\* evaluation function returning loss = v on every step: run evaluates exactly
\* S // B batches and returns {"loss": v}.
C2_EvaluatesEveryBatchOfTheEpoch ==
    (/\ pc = "returned"
     /\ cfg.loader_cls = "FlaxDataLoader"
     /\ cfg.dataset \in SizedDatasets
     /\ SizedRows % cfg.batch_size = 0
     /\ ~cfg.shuffle
     /\ ~cfg.do_distributed
     /\ IsNone(cfg.eval_steps)
     /\ cfg.auto_aggregate_metrics
     /\ cfg.metric_names = {"loss"}
     /\ \E v \in MetricValues : \A n \in DOMAIN hist : hist[n] = [k \in {"loss"} |-> Rat(v)])
    => /\ Len(hist) = SizedRows \div cfg.batch_size
       /\ \A n \in DOMAIN hist :
             /\ DOMAIN result[1] = {"loss"}
             /\ RatEq(result[1]["loss"], hist[n]["loss"])

\* C3: on a dataset that exposes no row count, run with eval_steps unset
\* fails with ConfigurationError, and with eval_steps = n it succeeds and
\* evaluates exactly n batches.
C3_UnsizedDatasetNeedsEvalSteps ==
    (/\ RunFinished
     /\ cfg.loader_cls = "FlaxDataLoader"
     /\ cfg.dataset \in UnsizedDatasets
     /\ ~cfg.do_distributed
     /\ \A n \in DOMAIN events : ~events[n].raised)
    => IF IsNone(cfg.eval_steps)
       THEN pc = "raised" /\ error = "ConfigurationError"
       ELSE pc = "returned" /\ Len(hist) = Val(cfg.eval_steps)

\* C4: run with do_distributed and at most one device fails with
\* ConfigurationError, before any callback is constructed, any hook is
\* invoked or any batch is evaluated.
C4_DistributedNeedsDevices ==
    (cfg.do_distributed /\ devices <= 1)
    => /\ pc \in {"start", "resolve_steps", "check_devices", "raised"}
       /\ callbacks = 0
       /\ events = <<>>
       /\ hist = <<>>
       /\ gens = <<>>
       /\ pc = "raised" => error = "ConfigurationError"

\* The calls of the loop body, in the order made.
IsStepEvent(e) == e.ev \in {"pre_batch", "eval_fn", "post_batch"}
StepEvents == SelectSeq(events, IsStepEvent)

\* C5: the events of step s are pre_batch(s) on each callback in registration
\* order, then the evaluation function on batch s, then post_batch(s) on each
\* callback in registration order, and no event of step s+1 comes before the
\* last post_batch(s): the n-th call of the loop body is the n-th of that order.
C5_StepEventsInRegistrationOrder ==
    \A n \in DOMAIN StepEvents :
        LET per == 2 * callbacks + 1
            s == (n - 1) \div per
            r == (n - 1) % per
            e == StepEvents[n]
        IN  /\ e.step = s
            /\ IF r < callbacks THEN e.ev = "pre_batch" /\ e.cb = r + 1
               ELSE IF r = callbacks THEN e.ev = "eval_fn" /\ e.cb = 0
               ELSE e.ev = "post_batch" /\ e.cb = r - callbacks

\* Two steps have run to their end with two callbacks.
C5_Witness ==
    /\ callbacks = 2
    /\ Len(StepEvents) >= 10
    /\ StepEvents[10].ev = "post_batch" /\ StepEvents[10].step = 1

\* C6: in a run that completes without error, pre_eval_loop is invoked
\* exactly once on each callback before the first pre_batch, post_eval_loop
\* exactly once on each callback after the last post_batch, and the mapping
\* given to post_eval_loop is the mapping run returns.
C6_LoopHooksBracketTheRun ==
    pc = "returned" =>
        LET n == Len(events)
        IN  /\ n >= 2 * callbacks
            /\ \A k \in 1..callbacks :
                  /\ events[k].ev = "pre_eval_loop" /\ events[k].cb = k
                  /\ events[n - callbacks + k].ev = "post_eval_loop"
                  /\ events[n - callbacks + k].cb = k
                  /\ events[n - callbacks + k].arg = result[1]
            /\ \A k \in (callbacks + 1)..(n - callbacks) : IsStepEvent(events[k])

\* A run with two callbacks returns a non-empty aggregate over two steps.
C6_Witness ==
    /\ pc = "returned"
    /\ callbacks = 2
    /\ Len(hist) >= 2
    /\ result[1] # EmptyMap

RECURSIVE SumOf(_, _)
SumOf(h, k) ==
    IF h = <<>> THEN Rat(0)
    ELSE IF k \in DOMAIN Head(h) THEN RatAdd(Head(h)[k], SumOf(Tail(h), k))
    ELSE SumOf(Tail(h), k)

CountOf(h, k) == Cardinality({n \in DOMAIN h : k \in DOMAIN h[n]})

\* The aggregation of every evaluated step has been done.
AggregationUpToDate == pc \in {"next_batch", "post_eval_loop", "returned"}

\* C7: with auto_aggregate_metrics on, for every configured metric name that
\* some step reported, the aggregate is the sum of the values reported for it
\* divided by the number of steps that reported it.
C7_AggregateIsMeanOverReportingSteps ==
    (cfg.auto_aggregate_metrics /\ AggregationUpToDate)
    => \A k \in cfg.metric_names :
          CountOf(hist, k) > 0
          => /\ k \in DOMAIN aggregated_metrics
             /\ RatEq(aggregated_metrics[k], RatDiv(SumOf(hist, k), CountOf(hist, k)))

\* C8: when a hook or the evaluation function raises, the exception reaches
\* the caller unchanged, and after it no hook is invoked, no batch is
\* evaluated and run returns nothing: a call that raised is the last call
\* made, and run has ended with its exception.
C8_ExceptionsAbortTheRun ==
    \A n \in DOMAIN events :
        events[n].raised
        => /\ n = Len(events)
           /\ pc = "raised"
           /\ error = (IF events[n].ev = "eval_fn" THEN "EvalError" ELSE "CallbackError")
           /\ result = <<>>

\* A hook has raised after a step was evaluated.
C8_Witness ==
    /\ Len(hist) >= 1
    /\ Len(events) >= 1
    /\ events[Len(events)].raised
    /\ events[Len(events)].ev = "post_batch"

\* C11: with auto_aggregate_metrics off, after every evaluated step the
\* aggregate mapping equals exactly that step's raw metrics mapping, so the
\* mapping run returns is the raw metrics of the last evaluated step and holds
\* no key that only an earlier step reported.
C11_AggregateIsLastStepMetrics ==
    (~cfg.auto_aggregate_metrics /\ AggregationUpToDate /\ hist # <<>>)
    => /\ aggregated_metrics = hist[Len(hist)]
       /\ pc = "returned" => result[1] = hist[Len(hist)]

\* The steps that reported metric k.
ReportedAt(h, k) == {n \in DOMAIN h : k \in DOMAIN h[n]}

\* The last of a non-empty set of steps.
Latest(ns) == CHOOSE n \in ns : \A m \in ns : m <= n

\* C11 as amended: with auto_aggregate_metrics off, after every evaluated
\* step the aggregate mapping holds every key some step so far reported, each
\* with the raw value of the latest step that reported it; run returns that
\* mapping.
C11_AggregateIsLatestValuePerKey ==
    (~cfg.auto_aggregate_metrics /\ AggregationUpToDate)
    => /\ DOMAIN aggregated_metrics = {k \in MetricKeys : ReportedAt(hist, k) # {}}
       /\ \A k \in DOMAIN aggregated_metrics :
             aggregated_metrics[k] = hist[Latest(ReportedAt(hist, k))][k]
       /\ pc = "returned" => result[1] = aggregated_metrics

\* A run without auto-aggregation has returned a key that only a step before
\* the last one reported.
C11_Witness ==
    /\ ~cfg.auto_aggregate_metrics
    /\ pc = "returned"
    /\ Len(hist) >= 2
    /\ \E k \in DOMAIN result[1] : k \notin DOMAIN hist[Len(hist)]

\* The replicated evaluations of a distributed run on several devices that
\* returned metrics.
DistributedEvals ==
    {n \in DOMAIN events :
        /\ cfg.do_distributed
        /\ devices > 1
        /\ events[n].ev = "eval_fn"
        /\ ~events[n].raised}

\* C12: with do_distributed on and D > 1 devices, at every step the evaluation
\* function is applied once per device shard and the value fed to the
\* aggregator for each metric is a single scalar equal to the mean of the D
\* per-device values of that metric, the mean being taken once.
C12_AggregatorGetsMeanOverDevices ==
    \A n \in DistributedEvals :
        /\ Len(events[n].arg) = devices
        /\ error # "NameError"
        /\ Len(hist) > events[n].step
        /\ \A k \in DOMAIN events[n].arg[1] :
              /\ k \in DOMAIN hist[events[n].step + 1]
              /\ RatEq(hist[events[n].step + 1][k],
                       RatDiv(DeviceSum(events[n].arg, k, devices), devices))

\* ------------------------------------------------ claims on the loader
\* The rows of one field of a yielded batch, in order (the shards of a
\* sharded batch one after the other).
RowsOf(g, batch, k) == IF g.do_distributed THEN Concat(batch[k]) ELSE batch[k]

\* The row indices a generator has yielded for field k, in yield order.
YieldedRows(g, k) == Concat([b \in DOMAIN g.yielded |-> RowsOf(g, g.yielded[b], k)])

Finished(g) == g.pc \in {"done", "raised"}

\* C1: with shuffle disabled and S >= B, one epoch yields S // B batches whose
\* row indices, concatenated in yield order, are 0, 1, ..., (S // B) * B - 1.
C1_UnshuffledEpochCoversAllFullBatches ==
    \A n \in DOMAIN gens :
        (/\ gens[n].pc = "done"
         /\ ~ld.shuffle
         /\ Size(ld) >= ld.batch_size)
        => /\ Len(gens[n].yielded) = Size(ld) \div ld.batch_size
           /\ \A k \in Fields :
                 YieldedRows(gens[n], k)
                     = Arange((Size(ld) \div ld.batch_size) * ld.batch_size)

C10_WitnessFails ==
    \E n \in DOMAIN gens :
        /\ gens[n].do_distributed
        /\ ld.batch_size % devices # 0
        /\ gens[n].error = "ShardingError"

\* C13: every batch the loader yields has exactly batch_size rows in every
\* field, whatever the dataset size, the batch size and drop_last; an
\* incomplete batch is never yielded, and a dataset smaller than one batch
\* yields nothing.
C13_EveryBatchIsFull ==
    \A n \in DOMAIN gens :
        /\ \A b \in DOMAIN gens[n].yielded : \A k \in Fields :
              Len(RowsOf(gens[n], gens[n].yielded[b], k)) = ld.batch_size
        /\ Size(ld) < ld.batch_size => gens[n].yielded = <<>>

\* With drop_last off and a dataset size that is not a multiple of the batch
\* size, an iteration has run to its end and has yielded a batch.
C13_Witness ==
    \E n \in DOMAIN gens :
        /\ ~ld.drop_last
        /\ Size(ld) % ld.batch_size # 0
        /\ gens[n].pc = "done"
        /\ gens[n].yielded # <<>>

\* With drop_last off, an iteration over a dataset smaller than one batch has
\* ended without a batch.
C13_WitnessSmall ==
    \E n \in DOMAIN gens :
        /\ ~ld.drop_last
        /\ Size(ld) < ld.batch_size
        /\ Finished(gens[n])
        /\ gens[n].yielded = <<>>

\* ------------------------------------------------ claims on add_soft_prompt
\* The prompt lengths of the applications 1..n together.
RECURSIVE PromptTotal(_)
PromptTotal(n) == IF n = 0 THEN 0 ELSE PromptTotal(n - 1) + forwards[n].prompt_length

\* A forward call without past_key_values has been made on a model that
\* add_soft_prompt was applied to.
PatchedCall ==
    /\ call.pc # "idle"
    /\ forwards # <<>>
    /\ ~call.given.past

\* The unpatched forward got every sequence argument it was given by keyword
\* at the call's length plus every prompt's length, and a call whose result
\* is of a recognised class has returned logits / last_hidden_state and
\* hidden_states of the call's length.
CallKeepsLengths ==
    /\ ~IsNone(call.seen) =>
          \A key \in (SequenceKeys \cup {"inputs_embeds"}) \cap DOMAIN Val(call.seen).kwargs :
              Len(Val(call.seen).kwargs[key])
                  = call.given.length + PromptTotal(Len(forwards))
    /\ (call.pc \in {"returned", "raised"} /\ call.options.type # "other") =>
          /\ call.pc = "returned"
          /\ \A t \in {Val(call.result).logits, Val(call.result).last_hidden_state} :
                ~IsNone(t) => Len(Val(t)) = call.given.length
          /\ ~IsNone(Val(call.result).hidden_states) =>
                \A j \in DOMAIN Val(Val(call.result).hidden_states) :
                    Len(Val(Val(call.result).hidden_states)[j]) = call.given.length

\* C14: after add_soft_prompt, applied once or several times over, a patched
\* forward call without past_key_values on inputs of sequence length L calls
\* the original forward with every supplied sequence input of length L plus
\* the prompt lengths, and for a result of either recognised output type
\* returns logits / last_hidden_state and hidden_states of length L.
C14_PromptIsInvisibleToTheCaller == PatchedCall => CallKeepsLengths

\* The same for calls that hand over every input by keyword and whose result
\* carries no key/value cache to unpatch.
KeywordCallKeepsLengths ==
    (/\ PatchedCall
     /\ call.given.style # "positional"
     /\ ~(/\ call.options.type = "BaseModelOutputWithPastAndCrossAttentions"
          /\ call.options.use_cache))
    => CallKeepsLengths

====
